---------------------------- MODULE Spec2Model ----------------------------
(***************************************************************************)
(* Model of the sphinx-hq-challenge client (Go).                           *)
(*                                                                         *)
(* The epsilon-greedy solution (src/unnamed/part_001, lines 1-320) is the  *)
(* episode loop of main(): StartEpisode, then while mortiesCount > 0 an    *)
(* explore or exploit choice, the three portal requests of Send, the       *)
(* update of the action table and GetEpisodeStatus.  Solution 1            *)
(* (src/main.go) and solution 2 (src/unnamed/part_001, lines 698-963) are  *)
(* the earlier programs of the repository, each with its own              *)
(* specification over the same variables.                                  *)
(*                                                                         *)
(* float32 values are modelled as exact rationals <<n, d>> in lowest terms *)
(* with d > 0, plus the value NaN that float32(0)/float32(0) produces.     *)
(* Rounding of float32 arithmetic is not modelled.                         *)
(*                                                                         *)
(* The remote service is the environment: it holds the pool of morties in  *)
(* the citadel, takes the morties of every portal request whose count is   *)
(* between 1 and the pool, and answers every request with a response the   *)
(* client reads as survived, as not survived, cannot interpret, or never   *)
(* receives.                                                               *)
(***************************************************************************)
EXTENDS Integers, Sequences, FiniteSets, TLC

VARIABLES
    pc,            \* position of main(): start, loop, send, update, status, done, panic, hung, ...
    mortiesCount,  \* main: mortiesCount
    actions,       \* main: actions, map[[3]int]*Action
    branch,        \* which branch of the epsilon test the step took
    combo,         \* randCombo / bestCombo of the step, after the clamp
    idx,           \* Send: index i of the range loop over combo
    count,         \* Send: count
    total,         \* Send: total
    rate,          \* return value of Send
    resp,          \* what the three portal requests of the step answered
    citadel,       \* the service's morties_in_citadel
    ret,           \* results of the calls of FindBestSurvivalCombo on one table
    statusErr,     \* StartEpisode / GetEpisodeStatus: err of the last json.Unmarshal is not nil
    cobMorties,    \* main.go: cobMorties
    cronMorties,   \* main.go: cronMorties
    purgeMorties,  \* main.go: purgeMorties
    req,           \* main.go: the arguments and the SendMorty body of the last SendMorties call
    planets,       \* solution 2: cobPlanet, cronenPlanet, purgePlanet, by planet number
    jessica,       \* the service's morties_on_planet_jessica
    sentTo         \* the morties the service has taken, by planet number

\* the variables of the epsilon-greedy program
greedyVars == <<actions, branch, combo, idx, count, total, rate, ret>>

\* the variables of solution 1 (src/main.go)
sol1Vars == <<cobMorties, cronMorties, purgeMorties, req>>

\* the variables of solution 2
sol2Vars == <<planets, jessica, sentTo>>

vars == <<pc, mortiesCount, resp, citadel, statusErr, greedyVars, sol1Vars, sol2Vars>>

-----------------------------------------------------------------------------
(* Bounds *)

\* largest pool the service starts an episode with
MaxPool == 7

\* largest pool the service starts an episode of solution 1 with
MaxPoolSol1 == 12

\* largest pool the service starts an episode of solution 2 with
MaxPoolSol2 == 7

\* largest pool of the episodes whose termination is checked
MaxLivePool == 5

\* number of rewards the function-level harness records
MaxObs == 3

-----------------------------------------------------------------------------
(* float32 as exact rationals *)

RECURSIVE GCD(_, _)
GCD(a, b) == IF b = 0 THEN a ELSE GCD(b, a % b)

NaN == <<0, 0>>

IsNaN(x) == x[2] = 0

\* n/d in lowest terms, d > 0
Rat(n, d) == LET g == GCD(n, d) IN <<n \div g, d \div g>>

Zero == <<0, 1>>

\* float32(n) / float32(d) for integers 0 <= n <= d: 0/0 is NaN, no fault
FDiv(n, d) == IF d = 0 THEN NaN ELSE Rat(n, d)

\* x + y; NaN if either is NaN
FAdd(x, y) ==
    IF IsNaN(x) \/ IsNaN(y) THEN NaN
    ELSE Rat(x[1] * y[2] + y[1] * x[2], x[2] * y[2])

\* x / float32(k), k > 0
FDivInt(x, k) == IF IsNaN(x) THEN NaN ELSE Rat(x[1], x[2] * k)

\* x > y; false when either is NaN
FGt(x, y) == ~IsNaN(x) /\ ~IsNaN(y) /\ x[1] * y[2] > y[1] * x[2]


-----------------------------------------------------------------------------
(* The epsilon-greedy program: pure functions *)

\* rand.IntN(3): the number of values a component of a random combo can take
IntN == 3

\* the 3 of the test mortiesCount < 3
MinSplit == 3

\* Average: 0 for an empty slice, else the running total divided by the count
RECURSIVE SumFrom(_, _, _)
SumFrom(f, i, acc) ==
    IF i > Len(f) THEN acc ELSE SumFrom(f, i + 1, FAdd(acc, f[i]))

\* Average with its loop starting at the second element
AverageFromSecond(f) ==
    IF Len(f) = 0 THEN Zero ELSE FDivInt(SumFrom(f, 2, Zero), Len(f))

Average(f) ==
    IF Len(f) = 0 THEN Zero ELSE FDivInt(SumFrom(f, 1, Zero), Len(f))

\* RandomCombo without the + 1 on the components
RandomComboZeroBased == {<<a, b, c>> : a \in 0..IntN - 1, b \in 0..IntN - 1, c \in 0..IntN - 1}

\* RandomCombo: every value rand.IntN(3)+1 can take, per component
RandomCombo == {<<a, b, c>> : a \in 1..IntN, b \in 1..IntN, c \in 1..IntN}

\* the range loop of FindBestSurvivalCombo over the keys not yet visited, in
\* every order a Go map iteration can take; the set of values bestCombo can end with
RECURSIVE BestFrom(_, _, _, _)
BestFrom(tbl, left, highest, bestCombo) ==
    IF left = {} THEN {bestCombo}
    ELSE UNION { IF FGt(tbl[k].avgSurvivalRate, highest)
                 THEN BestFrom(tbl, left \ {k}, tbl[k].avgSurvivalRate, k)
                 ELSE BestFrom(tbl, left \ {k}, highest, bestCombo)
                 : k \in left }

\* FindBestSurvivalCombo without the len(actions) == 0 test
FindBestNoEmptyTest(tbl) == BestFrom(tbl, DOMAIN tbl, Zero, <<0, 0, 0>>)

\* FindBestSurvivalCombo: the set of combos a call can return
FindBestSurvivalCombo(tbl) ==
    IF Cardinality(DOMAIN tbl) = 0
    THEN RandomCombo
    ELSE BestFrom(tbl, DOMAIN tbl, Zero, <<0, 0, 0>>)

\* the clamp splitting the rest over the planets instead of sending it to planet 0
ClampSplit(c, m) == IF m < MinSplit THEN <<1, m - 1, 0>> ELSE c

\* if mortiesCount < 3 { combo = [3]int{mortiesCount, 0, 0} }
Clamp(c, m) == IF m < MinSplit THEN <<m, 0, 0>> ELSE c

\* the update appending to the history without recomputing the average
UpsertStaleAverage(tbl, key, r) ==
    IF key \in DOMAIN tbl
    THEN [tbl EXCEPT ![key].survivalRateHistory = Append(@, r)]
    ELSE [k \in DOMAIN tbl \cup {key} |->
            IF k = key
            THEN [avgSurvivalRate |-> r, survivalRateHistory |-> <<r>>]
            ELSE tbl[k]]

\* the update putting the new rate in front of the history
UpsertPrepend(tbl, key, r) ==
    IF key \in DOMAIN tbl
    THEN LET h == <<r>> \o tbl[key].survivalRateHistory
         IN [tbl EXCEPT ![key] = [avgSurvivalRate |-> Average(h),
                                  survivalRateHistory |-> h]]
    ELSE [k \in DOMAIN tbl \cup {key} |->
            IF k = key
            THEN [avgSurvivalRate |-> r, survivalRateHistory |-> <<r>>]
            ELSE tbl[k]]

\* the update writing a fresh map that holds the recorded action only
UpsertForgetOthers(tbl, key, r) ==
    [k \in {key} |->
        IF key \in DOMAIN tbl
        THEN LET h == Append(tbl[key].survivalRateHistory, r)
             IN [avgSurvivalRate |-> Average(h), survivalRateHistory |-> h]
        ELSE [avgSurvivalRate |-> r, survivalRateHistory |-> <<r>>]]

\* the update of actions[key] with rate r, the same in both branches
Upsert(tbl, key, r) ==
    IF key \in DOMAIN tbl
    THEN LET h == Append(tbl[key].survivalRateHistory, r)
         IN [tbl EXCEPT ![key] = [avgSurvivalRate |-> Average(h),
                                  survivalRateHistory |-> h]]
    ELSE [k \in DOMAIN tbl \cup {key} |->
            IF k = key
            THEN [avgSurvivalRate |-> r, survivalRateHistory |-> <<r>>]
            ELSE tbl[k]]

\* the loop condition of main written as mortiesCount >= 0
LoopConditionWithZero(m) == m >= 0

\* for mortiesCount > 0
LoopCondition(m) == m > 0

\* the range loop of Send ending one planet early
SendDoneEarly(i) == i >= 2

\* for i, v := range combo: the loop has gone through the three planets
SendDone(i) == i = 3

\* the empty map
NoActions == [k \in {} |-> [avgSurvivalRate |-> Zero, survivalRateHistory |-> <<>>]]

\* the table declared without its initial entry
SeedActionsMissing == NoActions

\* map[[3]int]*Action{{2, 2, 2}: {avgSurvivalRate: 0.1, survivalRateHistory: []float32{0.1}}}
SeedActions ==
    [k \in {<<2, 2, 2>>} |->
        [avgSurvivalRate |-> <<1, 10>>, survivalRateHistory |-> << <<1, 10>> >>]]

\* the loop of Send counting the planets that survived, not their morties
SendCountPlanets(cnt, v, survived) == IF survived THEN cnt + 1 ELSE cnt

\* one iteration of the loop of Send: total += v; if portal.Survived { count += v }
SendCount(cnt, v, survived) == IF survived THEN cnt + v ELSE cnt

\* return float32(count) / float32(total)
SendRate(cnt, tot) == FDiv(cnt, tot)

-----------------------------------------------------------------------------
(* The service *)

\* what a portal request can come back as: a response with survived true, one
\* with survived false, the service's refusal (an answer without the fields of
\* Portal), a body the client cannot interpret (json.Unmarshal fails; portal
\* keeps its zero value), an error of client.Do (res is nil), or nothing at
\* all, ever
Responses == {"survived", "died", "rejected", "malformed", "neterr", "hang"}

\* the same for a start or status request
StatusResponses == {"ok", "malformed", "neterr", "hang"}

\* the service takes v morties when 1 <= v <= pool, else it refuses the request
Accepts(v, pool) == 1 <= v /\ v <= pool

AnswersTo(v, pool) ==
    IF Accepts(v, pool)
    THEN {"survived", "died", "malformed", "neterr", "hang"}
    ELSE {"rejected", "neterr", "hang"}

\* client := &http.Client{} sets no Timeout: with no response client.Do never
\* returns.  With an error from client.Do, res is nil and
\* `defer res.Body.Close()` panics.
AfterNoResponse(r) == IF r = "hang" THEN "hung" ELSE "panic"

-----------------------------------------------------------------------------
(* The epsilon-greedy program: main *)

NoCombo == <<0, 0, 0>>

\* the values of the variables of the other programs while they do not run
NoRequest == [planet |-> 0, mortyCount |-> 0, Planet |-> 0, MortyCount |-> 0]

NoPlanets == <<>>

NoneSent == [n \in 0..2 |-> 0]

Init ==
    /\ pc = "start"
    /\ mortiesCount = 0
    /\ actions = NoActions
    /\ branch = "none"
    /\ combo = NoCombo
    /\ idx = 0
    /\ count = 0
    /\ total = 0
    /\ rate = Zero
    /\ resp = <<>>
    /\ citadel \in 0..MaxPool
    /\ ret = <<>>
    /\ statusErr = FALSE
    /\ cobMorties = 0 /\ cronMorties = 0 /\ purgeMorties = 0
    /\ req = NoRequest
    /\ planets = NoPlanets
    /\ jessica = 0
    /\ sentTo = NoneSent

\* the morties_in_citadel a Start or Status call returns: the zero value of
\* the Status struct when the body cannot be interpreted
ReadCitadel(r, pool) == IF r = "malformed" THEN 0 ELSE pool

\* start := StartEpisode(client); mortiesCount := start.MortiesInCitadel;
\* actions = {(2,2,2): ...}.  With no response res is nil and
\* res.Body.Close() panics.
StartEpisode ==
    /\ pc = "start"
    /\ \E r \in StatusResponses :
         IF r \in {"neterr", "hang"}
         THEN /\ pc' = AfterNoResponse(r)
              /\ UNCHANGED <<mortiesCount, actions, statusErr>>
         ELSE /\ pc' = "loop"
              /\ mortiesCount' = ReadCitadel(r, citadel)
              /\ statusErr' = (r = "malformed")
              /\ actions' = SeedActions
    /\ UNCHANGED <<branch, combo, idx, count, total, rate, resp, citadel, ret>>
    /\ UNCHANGED <<sol1Vars, sol2Vars>>

\* for mortiesCount > 0, randomChance < EPSILON: RandomCombo, then the clamp
Explore ==
    /\ pc = "loop"
    /\ LoopCondition(mortiesCount)
    /\ \E randCombo \in RandomCombo :
         combo' = Clamp(randCombo, mortiesCount)
    /\ branch' = "explore"
    /\ pc' = "send"
    /\ idx' = 0 /\ count' = 0 /\ total' = 0 /\ resp' = <<>>
    /\ UNCHANGED <<mortiesCount, actions, rate, citadel, ret>>
    /\ UNCHANGED <<statusErr, sol1Vars, sol2Vars>>

\* for mortiesCount > 0, randomChance >= EPSILON: FindBestSurvivalCombo, then the clamp
Exploit ==
    /\ pc = "loop"
    /\ LoopCondition(mortiesCount)
    /\ \E bestCombo \in FindBestSurvivalCombo(actions) :
         combo' = Clamp(bestCombo, mortiesCount)
    /\ branch' = "exploit"
    /\ pc' = "send"
    /\ idx' = 0 /\ count' = 0 /\ total' = 0 /\ resp' = <<>>
    /\ UNCHANGED <<mortiesCount, actions, rate, citadel, ret>>
    /\ UNCHANGED <<statusErr, sol1Vars, sol2Vars>>

\* the loop condition fails: main returns
LoopExit ==
    /\ pc = "loop"
    /\ ~LoopCondition(mortiesCount)
    /\ pc' = "done"
    /\ UNCHANGED <<mortiesCount, actions, branch, combo, idx, count, total, rate, resp, citadel, ret>>
    /\ UNCHANGED <<statusErr, sol1Vars, sol2Vars>>

\* one iteration of the range loop of Send: the portal request for planet idx
\* with combo[idx] morties; after the third, Send returns count / total
SendOne ==
    /\ pc = "send"
    /\ idx < 3
    /\ LET v == combo[idx + 1] IN
       \E r \in AnswersTo(v, citadel) :
         /\ citadel' = IF Accepts(v, citadel) THEN citadel - v ELSE citadel
         /\ resp' = Append(resp, r)
         /\ IF r \in {"neterr", "hang"}
            THEN /\ pc' = AfterNoResponse(r)
                 /\ UNCHANGED <<idx, count, total, rate>>
            ELSE /\ total' = total + v
                 /\ count' = SendCount(count, v, r = "survived")
                 /\ idx' = idx + 1
                 /\ IF SendDone(idx')
                    THEN /\ rate' = SendRate(count', total')
                         /\ pc' = "update"
                    ELSE /\ pc' = "send"
                         /\ UNCHANGED rate
    /\ UNCHANGED <<mortiesCount, actions, branch, combo, ret>>
    /\ UNCHANGED <<statusErr, sol1Vars, sol2Vars>>

\* the if/else on actions[combo] after Send, in either branch
Update ==
    /\ pc = "update"
    /\ actions' = Upsert(actions, combo, rate)
    /\ pc' = "status"
    /\ UNCHANGED <<mortiesCount, branch, combo, idx, count, total, rate, resp, citadel, ret>>
    /\ UNCHANGED <<statusErr, sol1Vars, sol2Vars>>

\* status := GetEpisodeStatus(client); mortiesCount = status.MortiesInCitadel
GetEpisodeStatus ==
    /\ pc = "status"
    /\ \E r \in StatusResponses :
         IF r \in {"neterr", "hang"}
         THEN /\ pc' = AfterNoResponse(r)
              /\ UNCHANGED <<mortiesCount, branch, combo, idx, count, total, rate, resp, statusErr>>
         ELSE /\ pc' = "loop"
              /\ mortiesCount' = ReadCitadel(r, citadel)
              /\ statusErr' = (r = "malformed")
              /\ branch' = "none"
              /\ combo' = NoCombo
              /\ idx' = 0 /\ count' = 0 /\ total' = 0
              /\ rate' = Zero
              /\ resp' = <<>>
    /\ UNCHANGED <<actions, citadel, ret>>
    /\ UNCHANGED <<sol1Vars, sol2Vars>>

Next ==
    \/ StartEpisode
    \/ Explore
    \/ Exploit
    \/ LoopExit
    \/ SendOne
    \/ Update
    \/ GetEpisodeStatus

Spec == Init /\ [][Next]_vars

\* main is one goroutine of blocking calls: while a step is possible it is taken
LiveInit == Init /\ citadel <= MaxLivePool

LiveSpec == LiveInit /\ [][Next]_vars /\ WF_vars(Next)

-----------------------------------------------------------------------------
(* The functions of the epsilon-greedy program, called on their own:        *)
(* Send on a combo with stubbed portal responses, the table update with     *)
(* its result, and FindBestSurvivalCombo on the table built so far.         *)

\* the combos Send is called with: the all-zero combo, one with a zero
\* component, the seeded one
UnitCombos == {<<0, 0, 0>>, <<1, 2, 0>>, <<2, 2, 2>>}

\* the portal responses of one call of Send, per planet
UnitResponses == [1..3 -> {"survived", "died"}]

\* the number of rewards a table holds
RECURSIVE Observations(_, _)
Observations(tbl, keys) ==
    IF keys = {} THEN 0
    ELSE LET k == CHOOSE x \in keys : TRUE
         IN Len(tbl[k].survivalRateHistory) + Observations(tbl, keys \ {k})

UnitInit ==
    /\ pc = "unit"
    /\ mortiesCount = 0
    /\ actions \in {NoActions, SeedActions}
    /\ branch = "none"
    /\ combo = NoCombo
    /\ idx = 0
    /\ count = 0
    /\ total = 0
    /\ rate = Zero
    /\ resp = <<>>
    /\ citadel = 0
    /\ ret = <<>>
    /\ statusErr = FALSE
    /\ cobMorties = 0 /\ cronMorties = 0 /\ purgeMorties = 0
    /\ req = NoRequest
    /\ planets = NoPlanets
    /\ jessica = 0
    /\ sentTo = NoneSent

\* rate := Send(client, c), the three iterations of its loop at once
UnitSend ==
    /\ pc \in {"unit", "unitDone"}
    /\ Observations(actions, DOMAIN actions) < MaxObs
    /\ \E c \in UnitCombos, r \in UnitResponses :
         /\ combo' = c
         /\ resp' = r
         /\ total' = c[1] + c[2] + c[3]
         /\ count' = SendCount(SendCount(SendCount(0, c[1], r[1] = "survived"),
                                         c[2], r[2] = "survived"),
                               c[3], r[3] = "survived")
         /\ rate' = SendRate(count', total')
    /\ idx' = 3
    /\ pc' = "unitSent"
    /\ ret' = <<>>
    /\ UNCHANGED <<mortiesCount, actions, branch, citadel>>
    /\ UNCHANGED <<statusErr, sol1Vars, sol2Vars>>

\* the if/else on actions[combo] with the rate Send returned
UnitUpdate ==
    /\ pc = "unitSent"
    /\ actions' = Upsert(actions, combo, rate)
    /\ pc' = "unitDone"
    /\ UNCHANGED <<mortiesCount, branch, combo, idx, count, total, rate, resp, citadel, ret>>
    /\ UNCHANGED <<statusErr, sol1Vars, sol2Vars>>

\* bestCombo := FindBestSurvivalCombo(actions), called up to twice on one table
UnitExploit ==
    /\ pc \in {"unit", "unitDone"}
    /\ Len(ret) < 2
    /\ \E bestCombo \in FindBestSurvivalCombo(actions) :
         ret' = Append(ret, bestCombo)
    /\ UNCHANGED <<pc, mortiesCount, actions, branch, combo, idx, count, total, rate, resp, citadel>>
    /\ UNCHANGED <<statusErr, sol1Vars, sol2Vars>>

UnitNext ==
    \/ UnitSend
    \/ UnitUpdate
    \/ UnitExploit

UnitSpec == UnitInit /\ [][UnitNext]_vars

-----------------------------------------------------------------------------
(* Solution 1 (src/main.go): a count per planet, one more after a send that *)
(* survived, one less after one that did not.                               *)

\* the planets, by number: OnACob, CronenBergWorld, PurgePlanet
OnACob == 0

CronenBergWorld == 1

PurgePlanet == 2

\* the if / else if after a send without the test against the upper limit
AdjustNoUpperLimit(n, survived) ==
    IF survived THEN n + 1
    ELSE IF ~survived /\ n > 1 THEN n - 1
    ELSE n

\* if survived && n < 3 { n++ } else if !survived && n > 1 { n-- }
Adjust(n, survived) ==
    IF survived /\ n < 3 THEN n + 1
    ELSE IF ~survived /\ n > 1 THEN n - 1
    ELSE n

\* sm := &SendMorty{Planet: 0, MortyCount: 2}: the body does not read the
\* arguments mortyCount and planet
SendMortyBody(mortyCount, planet) ==
    [planet |-> planet, mortyCount |-> mortyCount, Planet |-> 0, MortyCount |-> 2]

Sol1Init ==
    /\ pc = "s1start"
    /\ mortiesCount = 0
    /\ actions = NoActions
    /\ branch = "none"
    /\ combo = NoCombo
    /\ idx = 0
    /\ count = 0
    /\ total = 0
    /\ rate = Zero
    /\ resp = <<>>
    /\ citadel \in 0..MaxPoolSol1
    /\ ret = <<>>
    /\ statusErr = FALSE
    /\ cobMorties = 0 /\ cronMorties = 0 /\ purgeMorties = 0
    /\ req = NoRequest
    /\ planets = NoPlanets
    /\ jessica = 0
    /\ sentTo = NoneSent

\* start := StartEpisode(client); mortiesCount := start.MortiesInCitadel;
\* cobMorties := 2; cronMorties := 2; purgeMorties := 2
Sol1Start ==
    /\ pc = "s1start"
    /\ \E r \in StatusResponses :
         IF r \in {"neterr", "hang"}
         THEN /\ pc' = AfterNoResponse(r)
              /\ UNCHANGED <<mortiesCount, statusErr, cobMorties, cronMorties, purgeMorties>>
         ELSE /\ pc' = "s1loop"
              /\ mortiesCount' = ReadCitadel(r, citadel)
              /\ statusErr' = (r = "malformed")
              /\ cobMorties' = 2
              /\ cronMorties' = 2
              /\ purgeMorties' = 2
    /\ UNCHANGED <<resp, citadel, req, greedyVars, sol2Vars>>

\* for mortiesCount > 0 { if cobMorties+cronMorties+purgeMorties > mortiesCount {...}
Sol1Enter ==
    /\ pc = "s1loop"
    /\ mortiesCount > 0
    /\ IF cobMorties + cronMorties + purgeMorties > mortiesCount
       THEN /\ cobMorties' = 3
            /\ cronMorties' = mortiesCount - cobMorties'
            /\ purgeMorties' = mortiesCount - cronMorties'
       ELSE UNCHANGED <<cobMorties, cronMorties, purgeMorties>>
    /\ resp' = <<>>
    /\ pc' = "s1cob"
    /\ UNCHANGED <<mortiesCount, citadel, statusErr, req, greedyVars, sol2Vars>>

\* the loop condition fails: main returns
Sol1Exit ==
    /\ pc = "s1loop"
    /\ mortiesCount <= 0
    /\ pc' = "done"
    /\ UNCHANGED <<mortiesCount, resp, citadel, statusErr, greedyVars, sol1Vars, sol2Vars>>

\* SendMorties(client, mortyCount, planet): the portal request with the body
\* SendMortyBody and the portal.Survived it returns, when it returns
SendMorties(mortyCount, planet, r) ==
    /\ req' = SendMortyBody(mortyCount, planet)
    /\ r \in AnswersTo(req'.MortyCount, citadel)
    /\ citadel' = IF Accepts(req'.MortyCount, citadel)
                  THEN citadel - req'.MortyCount
                  ELSE citadel
    /\ resp' = Append(resp, r)

\* onACobSurvived := SendMorties(client, cobMorties, OnACob) and the if / else if
Sol1SendCob ==
    /\ pc = "s1cob"
    /\ \E r \in Responses :
         /\ SendMorties(cobMorties, OnACob, r)
         /\ IF r \in {"neterr", "hang"}
            THEN pc' = AfterNoResponse(r) /\ UNCHANGED cobMorties
            ELSE pc' = "s1cron" /\ cobMorties' = Adjust(cobMorties, r = "survived")
    /\ UNCHANGED <<mortiesCount, statusErr, cronMorties, purgeMorties, greedyVars, sol2Vars>>

\* cronenbergWorldSurvived := SendMorties(client, cronMorties, CronenBergWorld) ...
Sol1SendCron ==
    /\ pc = "s1cron"
    /\ \E r \in Responses :
         /\ SendMorties(cronMorties, CronenBergWorld, r)
         /\ IF r \in {"neterr", "hang"}
            THEN pc' = AfterNoResponse(r) /\ UNCHANGED cronMorties
            ELSE pc' = "s1purge" /\ cronMorties' = Adjust(cronMorties, r = "survived")
    /\ UNCHANGED <<mortiesCount, statusErr, cobMorties, purgeMorties, greedyVars, sol2Vars>>

\* purgePlanetSurvived := SendMorties(client, purgeMorties, PurgePlanet) ...
Sol1SendPurge ==
    /\ pc = "s1purge"
    /\ \E r \in Responses :
         /\ SendMorties(purgeMorties, PurgePlanet, r)
         /\ IF r \in {"neterr", "hang"}
            THEN pc' = AfterNoResponse(r) /\ UNCHANGED purgeMorties
            ELSE pc' = "s1status" /\ purgeMorties' = Adjust(purgeMorties, r = "survived")
    /\ UNCHANGED <<mortiesCount, statusErr, cobMorties, cronMorties, greedyVars, sol2Vars>>

\* status := GetEpisodeStatus(client); mortiesCount = status.MortiesInCitadel
Sol1Status ==
    /\ pc = "s1status"
    /\ \E r \in StatusResponses :
         IF r \in {"neterr", "hang"}
         THEN /\ pc' = AfterNoResponse(r)
              /\ UNCHANGED <<mortiesCount, statusErr>>
         ELSE /\ pc' = "s1loop"
              /\ mortiesCount' = ReadCitadel(r, citadel)
              /\ statusErr' = (r = "malformed")
    /\ UNCHANGED <<resp, citadel, greedyVars, sol1Vars, sol2Vars>>

Sol1Next ==
    \/ Sol1Start
    \/ Sol1Enter
    \/ Sol1Exit
    \/ Sol1SendCob
    \/ Sol1SendCron
    \/ Sol1SendPurge
    \/ Sol1Status

Sol1Spec == Sol1Init /\ [][Sol1Next]_vars

-----------------------------------------------------------------------------
(* Solution 2: a Planet per planet number, whose Send chooses the planet's  *)
(* next count from its survival rate.                                       *)

\* cobPlanet, cronenPlanet, purgePlanet as main declares them
StartPlanets ==
    [n \in {OnACob, CronenBergWorld, PurgePlanet} |->
        [PlanetNumber |-> n, CurrentMortyAmount |-> 2, Survives |-> 0, SurvivalRate |-> Zero]]

\* portal := &Portal{}; json.Unmarshal(b, portal): the fields Send reads.  A
\* body that is not a portal result leaves the zero value.
Portal(r, pool, onJessica) ==
    IF r \in {"survived", "died"}
    THEN [Survived |-> r = "survived", MortiesInCitadel |-> pool,
          MortiesOnPlanetJessica |-> onJessica]
    ELSE [Survived |-> FALSE, MortiesInCitadel |-> 0, MortiesOnPlanetJessica |-> 0]

\* if portal.Survived { p.Survives += p.CurrentMortyAmount }
Survives(p, portal) ==
    IF portal.Survived THEN p.Survives + p.CurrentMortyAmount ELSE p.Survives

\* if portal.MortiesOnPlanetJessica != 0 { float32(p.Survives) /
\* float32(portal.MortiesOnPlanetJessica) } else { 0 }
SurvivalRate(survives, portal) ==
    IF portal.MortiesOnPlanetJessica # 0
    THEN FDiv(survives, portal.MortiesOnPlanetJessica)
    ELSE Zero

\* if sr > 0.66 && sr <= 1.0 { 3 } else if sr > 0.33 && sr <= 0.66 { 2 } else { 1 }
AmountFor(sr) ==
    IF FGt(sr, Rat(66, 100)) /\ ~FGt(sr, Rat(1, 1)) THEN 3
    ELSE IF FGt(sr, Rat(33, 100)) /\ ~FGt(sr, Rat(66, 100)) THEN 2
    ELSE 1

\* if portal.MortiesInCitadel < 3 { p.CurrentMortyAmount = portal.MortiesInCitadel }
CurrentMortyAmount(sr, portal) ==
    IF portal.MortiesInCitadel < 3 THEN portal.MortiesInCitadel ELSE AmountFor(sr)

\* the planet after (p *Planet) Send has read the portal result
PlanetAfterSend(p, portal) ==
    LET survives == Survives(p, portal)
        sr == SurvivalRate(survives, portal)
    IN [PlanetNumber |-> p.PlanetNumber,
        CurrentMortyAmount |-> CurrentMortyAmount(sr, portal),
        Survives |-> survives,
        SurvivalRate |-> sr]

Sol2Init ==
    /\ pc = "s2start"
    /\ mortiesCount = 0
    /\ actions = NoActions
    /\ branch = "none"
    /\ combo = NoCombo
    /\ idx = 0
    /\ count = 0
    /\ total = 0
    /\ rate = Zero
    /\ resp = <<>>
    /\ citadel \in 0..MaxPoolSol2
    /\ ret = <<>>
    /\ statusErr = FALSE
    /\ cobMorties = 0 /\ cronMorties = 0 /\ purgeMorties = 0
    /\ req = NoRequest
    /\ planets = NoPlanets
    /\ jessica = 0
    /\ sentTo = NoneSent

\* start := StartEpisode(client); mortiesCount := start.MortiesInCitadel; the
\* three Planet values
Sol2Start ==
    /\ pc = "s2start"
    /\ \E r \in StatusResponses :
         IF r \in {"neterr", "hang"}
         THEN /\ pc' = AfterNoResponse(r)
              /\ UNCHANGED <<mortiesCount, statusErr, planets>>
         ELSE /\ pc' = "s2loop"
              /\ mortiesCount' = ReadCitadel(r, citadel)
              /\ statusErr' = (r = "malformed")
              /\ planets' = StartPlanets
    /\ UNCHANGED <<resp, citadel, jessica, sentTo, greedyVars, sol1Vars>>

\* for mortiesCount > 0 {
Sol2Enter ==
    /\ pc = "s2loop"
    /\ mortiesCount > 0
    /\ resp' = <<>>
    /\ pc' = "s2cob"
    /\ UNCHANGED <<mortiesCount, citadel, statusErr, greedyVars, sol1Vars, sol2Vars>>

\* the loop condition fails: main returns
Sol2Exit ==
    /\ pc = "s2loop"
    /\ mortiesCount <= 0
    /\ pc' = "done"
    /\ UNCHANGED <<mortiesCount, resp, citadel, statusErr, greedyVars, sol1Vars, sol2Vars>>

\* (p *Planet) Send(client) for planets[n]: the portal request with
\* SendMorty{Planet: p.PlanetNumber, MortyCount: p.CurrentMortyAmount}, what
\* the service does with it, and the update of the planet from the result
PlanetSend(n, next) ==
    LET p == planets[n]
        v == p.CurrentMortyAmount
    IN \E r \in AnswersTo(v, citadel) :
         /\ citadel' = IF Accepts(v, citadel) THEN citadel - v ELSE citadel
         /\ sentTo' = IF Accepts(v, citadel)
                      THEN [sentTo EXCEPT ![n] = @ + v]
                      ELSE sentTo
         /\ \/ r = "survived" /\ jessica' = jessica + v
            \/ r = "died" /\ jessica' = jessica
            \/ r \notin {"survived", "died"} /\ jessica' = jessica
            \/ r \notin {"survived", "died"} /\ Accepts(v, citadel) /\ jessica' = jessica + v
         /\ resp' = Append(resp, r)
         /\ IF r \in {"neterr", "hang"}
            THEN pc' = AfterNoResponse(r) /\ UNCHANGED planets
            ELSE /\ pc' = next
                 /\ planets' = [planets EXCEPT
                                  ![n] = PlanetAfterSend(p, Portal(r, citadel', jessica'))]

\* cobPlanet.Send(client)
Sol2SendCob ==
    /\ pc = "s2cob"
    /\ PlanetSend(OnACob, "s2cron")
    /\ UNCHANGED <<mortiesCount, statusErr, greedyVars, sol1Vars>>

\* cronenPlanet.Send(client)
Sol2SendCron ==
    /\ pc = "s2cron"
    /\ PlanetSend(CronenBergWorld, "s2purge")
    /\ UNCHANGED <<mortiesCount, statusErr, greedyVars, sol1Vars>>

\* purgePlanet.Send(client)
Sol2SendPurge ==
    /\ pc = "s2purge"
    /\ PlanetSend(PurgePlanet, "s2status")
    /\ UNCHANGED <<mortiesCount, statusErr, greedyVars, sol1Vars>>

\* status := GetEpisodeStatus(client); mortiesCount = status.MortiesInCitadel
Sol2Status ==
    /\ pc = "s2status"
    /\ \E r \in StatusResponses :
         IF r \in {"neterr", "hang"}
         THEN /\ pc' = AfterNoResponse(r)
              /\ UNCHANGED <<mortiesCount, statusErr>>
         ELSE /\ pc' = "s2loop"
              /\ mortiesCount' = ReadCitadel(r, citadel)
              /\ statusErr' = (r = "malformed")
    /\ UNCHANGED <<resp, citadel, greedyVars, sol1Vars, sol2Vars>>

Sol2Next ==
    \/ Sol2Start
    \/ Sol2Enter
    \/ Sol2Exit
    \/ Sol2SendCob
    \/ Sol2SendCron
    \/ Sol2SendPurge
    \/ Sol2Status

Sol2Spec == Sol2Init /\ [][Sol2Next]_vars

-----------------------------------------------------------------------------
(* Properties of the episode loop *)

\* the positions of main inside one step, after the choice of the combo
InStep == pc \in {"send", "update", "status"}

\* the sum of a history as a fraction <<numerator, denominator>>, denominator > 0,
\* not reduced; <<0, 0>> when an element is NaN
RECURSIVE HistorySum(_)
HistorySum(h) ==
    IF Len(h) = 0 THEN <<0, 1>>
    ELSE LET rest == HistorySum(Tail(h))
             x == Head(h)
         IN IF x[2] = 0 \/ rest[2] = 0 THEN <<0, 0>>
            ELSE <<x[1] * rest[2] + rest[1] * x[2], x[2] * rest[2]>>

\* a = sum(h) / len(h), by cross-multiplication
IsMeanOf(a, h) ==
    LET sm == HistorySum(h)
    IN /\ Len(h) > 0
       /\ a[2] > 0
       /\ sm[2] > 0
       /\ a[1] * sm[2] * Len(h) = sm[1] * a[2]

\* C1: in the episode loop, every entry of the action table (the seeded
\* (2,2,2) included) has a non-empty history and an avgSurvivalRate equal to
\* sum(history)/len(history), after every step.
C1_AverageIsMean ==
    pc \in {"loop", "send", "update", "status", "done"} =>
        \A k \in DOMAIN actions :
            /\ Len(actions[k].survivalRateHistory) > 0
            /\ IsMeanOf(actions[k].avgSurvivalRate, actions[k].survivalRateHistory)

\* a step has just updated an entry that now holds two different rewards,
\* next to another entry
C1_Witness ==
    /\ pc = "status"
    /\ Cardinality(DOMAIN actions) >= 2
    /\ combo \in DOMAIN actions
    /\ Len(actions[combo].survivalRateHistory) = 2
    /\ actions[combo].survivalRateHistory[1] # actions[combo].survivalRateHistory[2]

\* C2: recording reward r for action a: if a is not a key, afterwards
\* table[a] has history exactly [r] and average r; if a is a key, afterwards
\* its history is the previous one with exactly r appended at the end, the
\* prior elements keeping value and order; in the explore and in the exploit
\* branch alike.
C2_RecordAppendsOne ==
    [][pc = "update" /\ branch \in {"explore", "exploit"} =>
        /\ combo \in DOMAIN actions'
        /\ LET new == actions'[combo].survivalRateHistory IN
           IF combo \in DOMAIN actions
           THEN LET old == actions[combo].survivalRateHistory IN
                /\ Len(new) = Len(old) + 1
                /\ \A i \in 1..Len(old) : new[i] = old[i]
                /\ new[Len(new)] = rate
           ELSE /\ new = <<rate>>
                /\ actions'[combo].avgSurvivalRate = rate]_vars

\* the exploit branch has just appended a second, different reward to an
\* entry, and the table also holds an entry that an earlier step inserted
\* with a single reward
C2_Witness ==
    /\ pc = "status"
    /\ branch = "exploit"
    /\ combo \in DOMAIN actions
    /\ Len(actions[combo].survivalRateHistory) = 2
    /\ actions[combo].survivalRateHistory[2] # actions[combo].survivalRateHistory[1]
    /\ actions[combo].survivalRateHistory[2] = rate
    /\ \E k \in DOMAIN actions \ {combo} :
          /\ Len(actions[k].survivalRateHistory) = 1
          /\ k # <<2, 2, 2>>

\* C3: whenever the remaining pool c a step sees is below 3 (c in {1,2}), the
\* action sent in the step is exactly (c,0,0), whatever the epsilon roll and
\* the table.
C3_ClampBelowThree ==
    InStep /\ mortiesCount < 3 =>
        /\ mortiesCount \in {1, 2}
        /\ combo = <<mortiesCount, 0, 0>>
        /\ Cardinality({i \in 1..3 : combo[i] = 0}) = 2

\* an exploit step with a pool of 2 and a table whose best entry is not
\* (2,0,0) is sending (2,0,0)
C3_Witness ==
    /\ pc = "send"
    /\ branch = "exploit"
    /\ mortiesCount = 2
    /\ combo = <<2, 0, 0>>
    /\ <<2, 0, 0>> \notin DOMAIN actions
    /\ Cardinality(DOMAIN actions) >= 2

\* C4: in the explore branch with a remaining pool >= 3, each of the three
\* components of the action sent is in {1,2,3}; none is 0.
C4_ExploreComponents ==
    InStep /\ branch = "explore" /\ mortiesCount >= 3 =>
        \A i \in 1..3 : combo[i] \in {1, 2, 3}

\* an explore step with a pool of at least 3 has sent a combo that uses the
\* values 1 and 3
C4_Witness ==
    /\ pc = "update"
    /\ branch = "explore"
    /\ mortiesCount >= 3
    /\ combo[1] = 3
    /\ combo[3] = 1

-----------------------------------------------------------------------------
(* Properties of the functions called on their own *)

\* Send has returned, in the harness or in the episode loop
SendReturned == pc \in {"unitSent", "unitDone", "update", "status"}

\* the rate Send returned has been recorded in the table
RateRecorded == pc \in {"unitDone", "status"}

\* C5: the reward of the all-zero action (0,0,0), total sent 0, is 0 and
\* never a division fault, NaN or infinity.
C5_ZeroActionRewardZero ==
    SendReturned /\ combo = <<0, 0, 0>> => rate = Zero

\* a >= b on float32 values that are not NaN
AtLeast(a, b) == a[2] > 0 /\ b[2] > 0 /\ a[1] * b[2] >= b[1] * a[2]

\* C6: for every non-empty action table, FindBestSurvivalCombo returns a key
\* of the table whose average is >= the average of every other entry, also
\* when every average is 0.
C6_BestIsKeyWithHighestAverage ==
    DOMAIN actions # {} /\ (\A k \in DOMAIN actions : ~IsNaN(actions[k].avgSurvivalRate)) =>
        \A i \in 1..Len(ret) :
            /\ ret[i] \in DOMAIN actions
            /\ \A k \in DOMAIN actions :
                   AtLeast(actions[ret[i]].avgSurvivalRate, actions[k].avgSurvivalRate)

\* C7: FindBestSurvivalCombo on an empty action table never returns (0,0,0)
\* and never fails: it returns a random action with each component in {1,2,3}.
C7_EmptyTableGivesRandomCombo ==
    DOMAIN actions = {} =>
        \A i \in 1..Len(ret) :
            /\ ret[i] # <<0, 0, 0>>
            /\ \A j \in 1..3 : ret[i][j] \in {1, 2, 3}

\* two calls on the empty table have returned two different combos, one of
\* them (3,1,2)
C7_Witness ==
    /\ DOMAIN actions = {}
    /\ Len(ret) = 2
    /\ ret[1] = <<3, 1, 2>>
    /\ ret[2] # ret[1]

\* C8: the exploit choice is deterministic: on the same table two calls of
\* FindBestSurvivalCombo return the same action, also when several entries
\* tie for the highest average.
C8_ExploitDeterministic ==
    DOMAIN actions # {} /\ Len(ret) = 2 => ret[1] = ret[2]

\* the morties of the combo sent to planets that answered survived
SurvivedUnits ==
    LET s(i) == IF resp[i] = "survived" THEN combo[i] ELSE 0
    IN s(1) + s(2) + s(3)

SentUnits == combo[1] + combo[2] + combo[3]

\* C9: for an action with a0+a1+a2 > 0 and survived flags (s0,s1,s2) the
\* reward recorded is (sum of ai over the i with si true) / (a0+a1+a2), so it
\* is in [0,1]; (1,2,0) with (true,false,any) on an empty table inserts
\* (1,2,0) with average 1/3.
C9_RewardIsSurvivedOverSent ==
    SendReturned /\ SentUnits > 0 =>
        /\ rate[2] > 0
        /\ rate[1] * SentUnits = SurvivedUnits * rate[2]
        /\ 0 <= rate[1] /\ rate[1] <= rate[2]
        /\ RateRecorded =>
             LET h == actions[combo].survivalRateHistory
             IN /\ h[Len(h)] = rate
                /\ (Len(h) = 1 => actions[combo].avgSurvivalRate = rate)

\* (1,2,0) with survived (true,false,_) has been recorded on the empty table
\* and is there with average 1/3
C9_Witness ==
    /\ pc = "unitDone"
    /\ combo = <<1, 2, 0>>
    /\ resp[1] = "survived" /\ resp[2] = "died"
    /\ DOMAIN actions = {<<1, 2, 0>>}
    /\ actions[<<1, 2, 0>>].avgSurvivalRate = <<1, 3>>
    /\ actions[<<1, 2, 0>>].survivalRateHistory = << <<1, 3>> >>

-----------------------------------------------------------------------------
(* Properties of the episode loop: failed and uninterpretable responses *)

\* C10: if a per-channel send fails or returns a response the client cannot
\* interpret, the step is aborted (or retried) with an explicit error: no
\* reward derived from that response is recorded, and the response is never
\* counted as 'did not survive' while the loop continues.
C10_NoRewardFromBadResponse ==
    pc = "status" =>
        \A i \in 1..Len(resp) : resp[i] \notin {"malformed", "neterr"}


\* C11: the episode ends with the normal-completion outcome only when a valid
\* Start or Status response reported the pool exhausted; a failed or
\* uninterpretable Start or Status response ends it with an error outcome and
\* is never read as 'remaining pool = 0'.  Stated for the episodes that end
\* while the service still holds morties.
C11_DoneOnlyAfterValidExhausted ==
    pc = "done" /\ citadel > 0 => ~statusErr /\ mortiesCount = 0

\* C12: when every collaborator call returns a response (the service of the
\* model lowers the pool in every step that sends a positive total and never
\* raises it), the episode loop eventually terminates; it runs a step only
\* while the last reported pool is > 0 and stops at the first Status report of
\* a pool <= 0.
C12_LoopTerminates ==
    /\ [](pc \notin {"hung", "panic"}) => <>(pc = "done")
    /\ [][pc = "loop" /\ pc' = "send" => mortiesCount > 0]_vars
    /\ [][pc = "loop" /\ mortiesCount <= 0 => pc' = "done"]_vars
    /\ [][pc = "status" /\ pc' = "loop" => 0 <= mortiesCount' /\ mortiesCount' < mortiesCount]_vars

\* the loop has ended normally after steps that put three entries in the table
C12_Witness ==
    /\ pc = "done"
    /\ ~statusErr
    /\ citadel = 0
    /\ Cardinality(DOMAIN actions) >= 3

\* C13: each step changes the action table at exactly one key, the action
\* sent in that step (after the clamp); every other key keeps its history and
\* average, and no key is ever removed.
C13_StepChangesOneKey ==
    /\ [][pc = "update" =>
            /\ DOMAIN actions' = DOMAIN actions \cup {combo}
            /\ combo \in DOMAIN actions => actions'[combo] # actions[combo]
            /\ \A k \in DOMAIN actions \ {combo} : actions'[k] = actions[k]]_vars
    /\ [][pc \notin {"start", "update"} => actions' = actions]_vars
    /\ [][pc # "start" => DOMAIN actions \subseteq DOMAIN actions']_vars

\* a step has just recorded its action in a table that holds three entries
C13_Witness ==
    /\ pc = "status"
    /\ Cardinality(DOMAIN actions) = 3
    /\ combo \in DOMAIN actions
    /\ Len(actions[combo].survivalRateHistory) = 1

\* C14: the action table is initialised with exactly one entry, (2,2,2) with
\* average 0.1 and history [0.1], and is non-empty in every reachable state of
\* the episode loop, so the exploit branch never reaches its empty-table
\* fallback.
C14_TableSeededNeverEmpty ==
    /\ [](pc \in {"loop", "send", "update", "status", "done"} =>
            /\ <<2, 2, 2>> \in DOMAIN actions
            /\ actions[<<2, 2, 2>>].survivalRateHistory[1] = <<1, 10>>)
    /\ [][pc = "start" /\ pc' = "loop" =>
            /\ DOMAIN actions' = {<<2, 2, 2>>}
            /\ actions'[<<2, 2, 2>>].avgSurvivalRate = <<1, 10>>
            /\ actions'[<<2, 2, 2>>].survivalRateHistory = << <<1, 10>> >>]_vars
    /\ [][pc = "loop" /\ pc' = "send" /\ branch' = "exploit" /\ mortiesCount >= 3 =>
            combo' \in DOMAIN actions]_vars

\* the first step of an episode exploits the table that holds the seed only
C14_Witness ==
    /\ pc = "send"
    /\ branch = "exploit"
    /\ DOMAIN actions = {<<2, 2, 2>>}
    /\ combo = <<2, 2, 2>>
    /\ actions[<<2, 2, 2>>].survivalRateHistory = << <<1, 10>> >>

\* C15: within one step the sends to planets 0, 1 and 2 all complete before
\* the table is updated, the table is updated before Status is queried, and
\* the next choice happens only after the Status response has set the
\* remaining pool; no two steps overlap.
C15_StepOrder ==
    /\ [](pc = "send" => idx < 3 /\ Len(resp) = idx)
    /\ [](pc \in {"update", "status"} => idx = 3 /\ Len(resp) = 3)
    /\ [][pc' = "update" => pc = "send" /\ idx = 2 /\ actions' = actions]_vars
    /\ [][pc' = "status" => pc = "update" /\ actions' # actions]_vars
    /\ [][pc = "status" /\ pc' = "loop" => mortiesCount' = ReadCitadel(IF statusErr' THEN "malformed" ELSE "ok", citadel)]_vars
    /\ [][pc' = "send" /\ pc # "send" => pc = "loop" /\ resp' = <<>> /\ idx' = 0]_vars
    /\ [][pc' = "loop" => pc \in {"start", "status"}]_vars

\* the second step of an episode is sending to planet 1 after planet 0 answered
C15_Witness ==
    /\ pc = "send"
    /\ idx = 1
    /\ Len(resp) = 1
    /\ Cardinality(DOMAIN actions) = 2

\* C16: a send whose response never arrives does not stall the episode loop
\* forever: each send is bounded by a timeout after which the loop proceeds.
C16_NoSendWaitsForever ==
    pc = "hung" => \A i \in 1..Len(resp) : resp[i] # "hang"

-----------------------------------------------------------------------------
(* Repeated recordings of one reward *)

\* the last n elements of h are all equal to its last element
EndsWithRun(h, n) ==
    /\ 1 <= n /\ n <= Len(h)
    /\ \A i \in (Len(h) - n + 1)..Len(h) : h[i] = h[Len(h)]

\* a = (S0 + n*r) / (L0 + n) for S0 = s0[1]/s0[2], by cross-multiplication
IsRunMean(a, s0, l0, n, r) ==
    /\ a[2] > 0
    /\ a[1] * (s0[2] * r[2]) * (l0 + n) = (s0[1] * r[2] + n * r[1] * s0[2]) * a[2]

\* |a - r| <= |b - r| for fractions a, b, r with positive denominators
Abs(x) == IF x < 0 THEN -x ELSE x

NoFartherFrom(r, a, b) ==
    Abs(a[1] * r[2] - r[1] * a[2]) * b[2] <= Abs(b[1] * r[2] - r[1] * b[2]) * a[2]

\* C17: after N consecutive recordings of the same reward r for action a its
\* average is (S0 + N*r)/(L0 + N), S0 and L0 being the sum and the length of
\* a's history before (0 and 0 if a was unseen); so |avg - r| never increases
\* with N, and avg = r exactly for a previously unseen action.  Stated for
\* rewards that are numbers.
C17_RepeatedRewardMean ==
    /\ [](\A k \in DOMAIN actions :
            LET h == actions[k].survivalRateHistory
                a == actions[k].avgSurvivalRate
            IN (\A i \in 1..Len(h) : ~IsNaN(h[i])) =>
                 \A n \in 1..Len(h) :
                    EndsWithRun(h, n) =>
                       /\ IsRunMean(a, HistorySum(SubSeq(h, 1, Len(h) - n)), Len(h) - n, n, h[Len(h)])
                       /\ n = Len(h) => a = h[Len(h)])
    /\ [][pc = "unitSent" /\ combo \in DOMAIN actions /\ ~IsNaN(rate)
             /\ ~IsNaN(actions[combo].avgSurvivalRate) =>
            NoFartherFrom(rate, actions'[combo].avgSurvivalRate, actions[combo].avgSurvivalRate)]_vars

\* the seeded (2,2,2) has had the reward 1/3 recorded twice in a row: its
\* average is (1/10 + 2/3) / 3 = 23/90
C17_Witness ==
    /\ pc = "unitDone"
    /\ <<2, 2, 2>> \in DOMAIN actions
    /\ actions[<<2, 2, 2>>].survivalRateHistory = << <<1, 10>>, <<1, 3>>, <<1, 3>> >>
    /\ actions[<<2, 2, 2>>].avgSurvivalRate = <<23, 90>>

-----------------------------------------------------------------------------
(* Properties of solution 1 *)

\* a call of SendMorties has just returned and its if / else if has run
Sol1AfterSend == pc \in {"s1cron", "s1purge", "s1status"}

\* the count of the planet the last call of SendMorties was for
Sol1CountOf(planet) ==
    IF planet = OnACob THEN cobMorties
    ELSE IF planet = CronenBergWorld THEN cronMorties
    ELSE purgeMorties

\* the survived flag the last call of SendMorties returned
Sol1LastSurvived == resp[Len(resp)] = "survived"

-----------------------------------------------------------------------------
(* Properties of solution 2 *)

\* Send has just returned for the planet with this number, with a portal
\* result read from the response
Sol2Sent(n) ==
    /\ \/ n = OnACob /\ pc = "s2cron"
       \/ n = CronenBergWorld /\ pc = "s2purge"
       \/ n = PurgePlanet /\ pc = "s2status"
    /\ resp[Len(resp)] \in {"survived", "died"}

\* a <= sr <= b excluded at a, for a survival rate and percentages a, b
InPercentRange(sr, a, b) == FGt(sr, Rat(a, 100)) /\ ~FGt(sr, Rat(b, 100))

\* C19: after each send the planet's next count is 1 for a survival ratio in
\* (0, 33%], 2 for a ratio in (33%, 66%] and 2 for a ratio in (66%, 100%];
\* stated for the sends that leave at least 3 morties in the citadel.
C19_CountFromRatio ==
    \A n \in {OnACob, CronenBergWorld, PurgePlanet} :
        Sol2Sent(n) /\ citadel >= 3 =>
            LET sr == planets[n].SurvivalRate
                next == planets[n].CurrentMortyAmount
            IN /\ InPercentRange(sr, 0, 33) => next = 1
               /\ InPercentRange(sr, 33, 66) => next = 2
               /\ InPercentRange(sr, 66, 100) => next = 2

\* C20: a planet's survival ratio after a send is the morties sent to that
\* planet that survived over the morties sent to that planet, over all the
\* sends to that planet.
C20_RatioIsSurvivedOverSentToPlanet ==
    \A n \in {OnACob, CronenBergWorld, PurgePlanet} :
        Sol2Sent(n) /\ sentTo[n] > 0 =>
            planets[n].SurvivalRate = FDiv(planets[n].Survives, sentTo[n])

-----------------------------------------------------------------------------
(* Properties of the sends of one step *)

\* C21: in every step of the episode loop the units of the sent action,
\* combo[0] + combo[1] + combo[2], do not exceed the pool the step started
\* with, and no portal request of the step is issued once the pool is 0.
C21_SentWithinPool ==
    pc = "send" =>
        /\ combo[1] + combo[2] + combo[3] <= mortiesCount
        /\ citadel > 0

-----------------------------------------------------------------------------
(* Properties of the requests of solution 1 *)

\* C22: every portal request of solution 1 transmits the planet and the morty
\* count the loop decided for it: SendMorties(client, n, p) sends planet = p
\* and morty_count = n, so the three sends of one iteration go to three
\* different planets; stated for the iterations that start with 9 morties or
\* more, in which the loop sends the counts it kept from the last iteration.
C22_RequestCarriesArguments ==
    Sol1AfterSend /\ mortiesCount >= 9 =>
        /\ req.Planet = req.planet
        /\ req.MortyCount = req.mortyCount

\* C23: every count passed to SendMorties is between 1 and 3, and when the
\* three counts summed to more than mortiesCount the adjusted counts are all
\* non-negative and sum to at most mortiesCount.
C23_CountsWithinPool ==
    /\ Sol1AfterSend => 1 <= req.mortyCount /\ req.mortyCount <= 3
    /\ pc = "s1cob" =>
          /\ cobMorties >= 0 /\ cronMorties >= 0 /\ purgeMorties >= 0
          /\ cobMorties + cronMorties + purgeMorties <= mortiesCount

=============================================================================
